---- MODULE Spec2Model ----
(***************************************************************************)
(* Model of horovod/tensorflow/__init__.py: the sign-quantizer with error  *)
(* feedback (qsgd_compk), the allreduce wrapper and DistributedOptimizer.  *)
(*                                                                         *)
(* Numbers are exact rationals <<numerator, denominator>> in lowest terms  *)
(* with a positive denominator.  Tensor elements are measured in units of  *)
(* the sign-stabilising epsilon of signq (1e-13), so that element values   *)
(* below, at and above the epsilon are all representable.  Tensors are     *)
(* flattened: a tensor is a sequence of rationals and its shape is its     *)
(* length.                                                                 *)
(***************************************************************************)
EXTENDS Integers, Sequences, FiniteSets, TLC

\* ------------------------------------------------------------------ bounds
MaxSize == 2
MaxSteps == 2
MaxTopKSteps == 2
MaxBigSteps == 1

\* ------------------------------------------------------- exact rationals
\* Every operator binds its arguments once, as x in a singleton set, before
\* it uses them, and every tensor is built as a tuple.
Abs(n) == IF n < 0 THEN -n ELSE n

RECURSIVE GCD(_, _)
GCD(a, b) == CHOOSE y \in {IF x[2] = 0 THEN x[1] ELSE GCD(x[2], x[1] % x[2]) : x \in {<<a, b>>}} : TRUE

Rat(n, d) ==
    CHOOSE y \in {<<x[1] \div g, x[2] \div g>> :
                    x \in {IF d < 0 THEN <<-n, -d>> ELSE <<n, d>>},
                    g \in {GCD(Abs(n), Abs(d))}} : TRUE

Zero == <<0, 1>>
One == <<1, 1>>
\* the sum over the least common denominator
RAdd(a, b) ==
    CHOOSE y \in {Rat(x[1] * (z[2] \div g) + z[1] * (x[2] \div g), (x[2] \div g) * z[2]) :
                    x \in {a}, z \in {b}, g \in {GCD(a[2], b[2])}} : TRUE
RNeg(a) == CHOOSE y \in {<<-x[1], x[2]>> : x \in {a}} : TRUE
RSub(a, b) == RAdd(a, RNeg(b))
RMul(a, b) ==
    CHOOSE y \in {Rat(x[1] * z[1], x[2] * z[2]) : x \in {a}, z \in {b}} : TRUE
RDiv(a, b) ==
    CHOOSE y \in {Rat(x[1] * z[2], x[2] * z[1]) : x \in {a}, z \in {b}} : TRUE
RAbs(a) == CHOOSE y \in {<<Abs(x[1]), x[2]>> : x \in {a}} : TRUE
RLess(a, b) == \E x \in {a}, z \in {b} : x[1] * z[2] < z[1] * x[2]
\* tf.sign on a scalar: -1, 0 or 1
RSign(a) ==
    CHOOSE y \in {IF x[1] > 0 THEN One ELSE IF x[1] < 0 THEN RNeg(One) ELSE Zero :
                    x \in {a}} : TRUE

\* ---------------------------------------------------------------- tensors
\* sum of t[lo..hi], split in halves to keep the recursion shallow
RECURSIVE RangeSum(_, _, _)
RangeSum(t, lo, hi) ==
    IF lo > hi THEN Zero
    ELSE IF lo = hi THEN t[lo]
    ELSE RAdd(RangeSum(t, lo, (lo + hi) \div 2), RangeSum(t, ((lo + hi) \div 2) + 1, hi))

TSum(t) == CHOOSE y \in {RangeSum(x, 1, Len(x)) : x \in {t}} : TRUE
TAbs(t) == CHOOSE y \in {[i \in 1..Len(x) |-> RAbs(x[i])] \o <<>> : x \in {t}} : TRUE
TAdd(a, b) ==
    CHOOSE y \in {[i \in 1..Len(x) |-> RAdd(x[i], z[i])] \o <<>> : x \in {a}, z \in {b}} : TRUE
TSub(a, b) ==
    CHOOSE y \in {[i \in 1..Len(x) |-> RSub(x[i], z[i])] \o <<>> : x \in {a}, z \in {b}} : TRUE
TScale(t, c) ==
    CHOOSE y \in {[i \in 1..Len(x) |-> RMul(x[i], z)] \o <<>> : x \in {t}, z \in {c}} : TRUE
TDiv(t, c) ==
    CHOOSE y \in {[i \in 1..Len(x) |-> RDiv(x[i], z)] \o <<>> : x \in {t}, z \in {c}} : TRUE
TZeros(n) == [i \in 1..n |-> Zero] \o <<>>
\* tf.norm(var, ord=1)
L1(t) == TSum(TAbs(t))
\* square of tf.norm(values); the norm is positive exactly when this is
SumSq(t) ==
    CHOOSE y \in {TSum([i \in 1..Len(x) |-> RMul(x[i], x[i])] \o <<>>) : x \in {t}} : TRUE

\* ------------------------------------------------------ module constants
\* the 1e-13 added inside tf.sign, in units of itself
SignEps == One
\* the fixed cap on the number of selected elements
TopKCap == 1000
\* the 1e-5 added to the learning rate in the divisor (dimensionless)
LrEps == <<1, 100000>>

\* ----------------------------------------------------------- the quantizer
signq_floor(var) ==
    CHOOSE y \in {[i \in 1..Len(x) |->
                     RDiv(RMul(one_norm, RSign(RAdd(x[i], SignEps))), <<Len(x), 1>>)] \o <<>> :
                    x \in {var}, one_norm \in {RAdd(L1(var), One)}} : TRUE

\* one_norm*tf.sign(var+1e-13)/tf.cast(tf.size(var), tf.float32)
signq(var) ==
    CHOOSE y \in {[i \in 1..Len(x) |->
                     RDiv(RMul(one_norm, RSign(RAdd(x[i], SignEps))), <<Len(x), 1>>)] \o <<>> :
                    x \in {var}, one_norm \in {L1(var)}} : TRUE

Min(a, b) == IF a < b THEN a ELSE b

\* K = tf.minimum(1000, numel)
TopK_K_all(numel) == numel

TopK_K(numel) == Min(TopKCap, numel)

\* the distinct values of a tensor, largest first
RECURSIVE SortDesc(_)
SortDesc(S) ==
    IF S = {} THEN <<>>
    ELSE LET m == CHOOSE x \in S : \A y \in S : ~RLess(x, y)
         IN  <<m>> \o SortDesc(S \ {m})

RECURSIVE ConcatAll(_)
ConcatAll(ss) == IF ss = <<>> THEN <<>> ELSE Head(ss) \o ConcatAll(Tail(ss))

\* tf.nn.top_k(v, k).indices: positions of the k largest entries, larger
\* value first and, among equal values, lower position first
top_k(v, k) ==
    LET pos == [i \in 1..Len(v) |-> i]
        mags == SortDesc({v[i] : i \in 1..Len(v)})
        byMag == [j \in 1..Len(mags) |-> SelectSeq(pos, LAMBDA i : v[i] = mags[j])]
    IN  SubSeq(ConcatAll(byMag), 1, k)

\* tf.gather(flat_input, indices)
gather(flat, indices) ==
    CHOOSE y \in {[k \in 1..Len(ix) |-> x[ix[k]]] \o <<>> : x \in {flat}, ix \in {indices}} : TRUE

\* tf.convert_to_tensor(tf.IndexedSlices(vals, indices, dense_shape=[numel])):
\* a zero tensor with vals added at indices
RECURSIVE SumAt(_, _)
SumAt(vals, ks) ==
    IF ks = {} THEN Zero
    ELSE LET k == CHOOSE x \in ks : TRUE
         IN  RAdd(vals[k], SumAt(vals, ks \ {k}))

densify(vals, indices, numel) ==
    CHOOSE y \in {[i \in 1..numel |-> SumAt(x, {k \in 1..Len(ix) : ix[k] = i})] \o <<>> :
                    x \in {vals}, ix \in {indices}} : TRUE

\* "return q, input-q" (with the indices selected on the top-K path)
qsgd_return(input, q, indices) ==
    CHOOSE y \in {[q |-> qq, err |-> TSub(x, qq), indices |-> indices] :
                    x \in {input}, qq \in {q}} : TRUE

\* values = tf.gather(flat_input, indices); the scattered signq(values),
\* or zeros unless 0 < tf.norm(values)
topk_q(input, indices) ==
    CHOOSE y \in {IF RLess(Zero, SumSq(values))
                  THEN densify(signq(values), ix, Len(x))
                  ELSE TZeros(Len(x)) :
                    x \in {input}, ix \in {indices}, values \in {gather(input, indices)}} : TRUE

\* K = tf.minimum(1000, numel); indices = top_k(|input|, K)
topk_path(input) ==
    CHOOSE y \in {qsgd_return(input, topk_q(input, ix), ix) :
                    ix \in {top_k(TAbs(input), TopK_K(Len(input)))}} : TRUE

qsgd_compk_forgets_memory(eta_grad, mem, sparsify_, use_memory_) ==
    IF ~sparsify_
    THEN CHOOSE y \in {qsgd_return(input, signq(input), <<>>) : input \in {eta_grad}} : TRUE
    ELSE CHOOSE y \in {topk_path(input) : input \in {TAdd(mem, eta_grad)}} : TRUE

\* qsgd_compk(eta_grad, memory, topK_flag=1, ...) under the module flags
\* sparsify and use_memory; returns the quantized tensor, the new residual
\* and (top-K path) the selected indices
qsgd_compk(eta_grad, mem, sparsify_, use_memory_) ==
    IF ~sparsify_
    THEN CHOOSE y \in {qsgd_return(input, signq(input), <<>>) :
                         input \in {IF use_memory_ THEN TAdd(mem, eta_grad) ELSE eta_grad}} : TRUE
    ELSE CHOOSE y \in {topk_path(input) : input \in {TAdd(mem, eta_grad)}} : TRUE

\* -------------------------------------------------------------- gradients
\* A gradient as the wrapped optimizer returns it: None, a dense tensor
\* (values is the tensor) or an IndexedSlices (one scalar value per row).
NoneGrad == [kind |-> "none", values |-> <<>>, indices |-> <<>>, dense_shape |-> 0]
Dense(t) == [kind |-> "dense", values |-> t, indices |-> <<>>, dense_shape |-> Len(t)]
IndexedSlices(values, indices, dense_shape) ==
    [kind |-> "sparse", values |-> values, indices |-> indices, dense_shape |-> dense_shape]

\* isinstance(tensor, tf.IndexedSlices)
IsIndexedSlices(g) == g.kind = "sparse"

\* arithmetic of a gradient with a scalar acts on its values and keeps its kind
GradMul(g, c) == [g EXCEPT !.values = TScale(g.values, c)]
GradDiv(g, c) == [g EXCEPT !.values = TDiv(g.values, c)]

\* self._optimizer._learning_rate
learning_rate == <<1, 2>>

\* the inputs enumerated: dense gradients of a 2-element variable, with
\* elements below, at and above the epsilon once scaled ...
DenseGrads ==
    { <<Zero, Zero>>, <<<<-1, 1>>, <<6, 1>>>>, <<<<2, 1>>, <<-4, 1>>>> }

\* ... and sparse gradients of a 3-row variable: rank r holds one or two
\* local rows, alternating from one call to the next, and row 2 is held by
\* every rank
SparseGrad(r, n) ==
    IF (r + n) % 2 = 0
    THEN IndexedSlices(<< <<4, 1>> >>, <<2>>, 3)
    ELSE IndexedSlices(<< <<2, 1>>, <<-6, 1>> >>, <<1, 2>>, 3)

\* the training data: two dense gradients, which rank r meets alternately
\* from one call to the next, odd ranks starting with the second
Datasets == [0..1 -> DenseGrads]

\* the parameter sequences enumerated (the kind of gradient of each variable)
ParamLists ==
    { <<"dense", "sparse">>, <<"sparse", "none", "dense">> }

\* ------------------------------------------------------------------ state
VARIABLES
    size,             \* hvd.size(), the number of ranks
    entry,            \* "compute_gradients" or a direct call of "allreduce"
    average,          \* the average argument of allreduce
    sparse_as_dense,  \* self._sparse_as_dense
    sparsify,         \* module flag
    use_memory,       \* module flag
    params,           \* the parameter sequence, the same on every rank
    dataset,          \* the training data, see Datasets
    pc,               \* per rank: "idle", or the last operation completed
    idx,              \* per rank: position in the parameter sequence
    step,             \* per rank: calls completed
    grads,            \* per rank: grads_and_vars of the current call
    out,              \* per rank: results collected so far in this call
    returned,         \* per rank: what the last completed call returned
    memory,           \* per rank, per variable: the 'memory' slot, <<>> if absent
    work,             \* per rank: the tensors of the gradient being reduced
    ncalls,           \* per rank: the number of collective calls issued
    calls,            \* per rank: its calls that some rank has yet to complete
    events,           \* per rank: the events of the current gradient, in order
    fb,               \* per rank, per variable: error-feedback history
    tk                \* the quantizer exercised alone on the top-K path

vars == <<size, entry, average, sparse_as_dense, sparsify, use_memory, params, dataset,
          pc, idx, step, grads, out, returned, memory, work, ncalls, calls, events, fb, tk>>

config == <<size, entry, average, sparse_as_dense, sparsify, use_memory, params, dataset>>

\* the gradient the wrapped optimizer computes on rank r in its call number
\* n for a variable of the given kind
GradOf(kind, r, n) ==
    IF kind = "none" THEN NoneGrad
    ELSE IF kind = "dense" THEN Dense(dataset[(r + n) % 2])
    ELSE SparseGrad(r, n)

\* the list self._optimizer.compute_gradients returns on rank r in call n
GradList(ps, r, n) == [i \in 1..Len(ps) |-> GradOf(ps[i], r, n)]

RankIds == 0..(MaxSize - 1)
Ranks == 0..(size - 1)

NoWork ==
    [tensor |-> NoneGrad, mem_before |-> <<>>, q |-> <<>>, err |-> <<>>,
     values |-> <<>>, indices |-> <<>>, summed |-> <<>>, result |-> NoneGrad,
     \* what each rank passed to allreduce for this gradient, as the
     \* collective saw it complete
     all_tensors |-> <<>>, all_values |-> <<>>, all_indices |-> <<>>]

NoFb ==
    [steps |-> 0, before |-> <<>>, grad |-> <<>>, sent |-> <<>>,
     sumGrad |-> <<>>, sumSent |-> <<>>, allzero |-> TRUE]

TkIdle ==
    [step |-> 0, pc |-> "off", memory |-> <<>>, grad |-> <<>>, input |-> <<>>,
     q |-> <<>>, err |-> <<>>, indices |-> <<>>]

PipelineInit ==
    /\ pc = [r \in RankIds |-> "idle"]
    /\ idx = [r \in RankIds |-> 0]
    /\ step = [r \in RankIds |-> 0]
    /\ grads = [r \in RankIds |-> <<>>]
    /\ out = [r \in RankIds |-> <<>>]
    /\ returned = [r \in RankIds |-> <<>>]
    /\ memory = [r \in RankIds |-> [i \in 1..Len(params) |-> <<>>]]
    /\ work = [r \in RankIds |-> NoWork]
    /\ ncalls = [r \in RankIds |-> 0]
    /\ calls = [r \in RankIds |-> <<>>]
    /\ events = [r \in RankIds |-> <<>>]
    /\ fb = [r \in RankIds |-> [i \in 1..Len(params) |-> NoFb]]

Init ==
    /\ size \in 1..MaxSize
    /\ entry \in {"compute_gradients", "allreduce"}
    /\ average \in BOOLEAN
    /\ sparse_as_dense \in BOOLEAN
    /\ sparsify = FALSE
    /\ use_memory = TRUE
    /\ params \in ParamLists
    /\ dataset \in Datasets
    \* compute_gradients passes no average argument (default True) and only
    \* the optimizer has a sparse_as_dense flag; allreduce takes no None
    /\ entry = "compute_gradients" => average
    /\ entry = "allreduce" => ~sparse_as_dense /\ \A i \in 1..Len(params) : params[i] # "none"
    /\ PipelineInit
    /\ tk = TkIdle

\* ----------------------------------------------------- collective layer
\* Compression.none: compress returns the tensor and an empty context,
\* decompress returns the tensor
compress(t) == [tensor |-> t, ctx |-> <<>>]
decompress(t, ctx) == t

RECURSIVE SumRanks(_, _)
SumRanks(ts, n) == IF n = 1 THEN ts[0] ELSE TAdd(SumRanks(ts, n - 1), ts[n - 1])

\* _allreduce: the element-wise sum of the tensors of ranks 0..n-1
mpi_allreduce(ts, n) == SumRanks(ts, n)

RECURSIVE ConcatRanks(_, _)
ConcatRanks(ts, n) == IF n = 0 THEN <<>> ELSE ConcatRanks(ts, n - 1) \o ts[n - 1]

\* allgather: the concatenation of the tensors of ranks 0..n-1 in rank order
allgather(ts, n) == ConcatRanks(ts, n)

\* ------------------------------------------- allreduce and the optimizer
\* size() > 1 in compute_gradients
needs_allreduce_always(n) == n > 0

needs_allreduce(n) == n > 1

\* grad*self._optimizer._learning_rate (compute_gradients only)
prescale(g) == IF entry = "compute_gradients" THEN GradMul(g, learning_rate) ELSE g

\* .../(self._optimizer._learning_rate + 1e-5) (compute_gradients only)
postscale(g) ==
    IF entry = "compute_gradients" THEN GradDiv(g, RAdd(learning_rate, LrEps)) ELSE g

\* new_values = tf.div(values, horovod_size) if average else values
new_values_by_rows(values, avg, horovod_size) ==
    IF avg /\ Len(values) > 0 THEN TDiv(values, <<Len(values), 1>>) ELSE values

new_values(values, avg, horovod_size) ==
    IF avg THEN TDiv(values, <<horovod_size, 1>>) ELSE values

\* new_tensor = tf.div(summed_tensor, horovod_size) if average else summed_tensor
new_tensor(summed_tensor, avg, horovod_size) ==
    IF avg THEN TDiv(summed_tensor, <<horovod_size, 1>>) ELSE summed_tensor

\* The order of the operations on one dense gradient: after(op) is the operation
\* that has completed when op runs.  assign consumes error, the output of
\* the quantizer; the collective and what follows are created under
\* tf.control_dependencies([mem_update_op]).
after_write_last(op) ==
    CASE op = "assign" -> "_allreduce"
      [] op = "_allreduce" -> "quantize"
      [] op = "rescale" -> "assign"

after(op) ==
    CASE op = "assign" -> "quantize"
      [] op = "_allreduce" -> "assign"
      [] op = "rescale" -> "_allreduce"

Append1(f, r, x) == [f EXCEPT ![r] = Append(@, x)]

\* the tensor handed to allreduce for the current position of rank r
CurTensor(r) == prescale(grads[r][idx[r]])

AtGradient(r) ==
    /\ r \in Ranks
    /\ pc[r] = "start"
    /\ idx[r] <= Len(params)

\* the call numbered k among the calls cs of one rank
CallNo(cs, k) == CHOOSE c \in {cs[j] : j \in 1..Len(cs)} : c.k = k
HasCall(cs, k) == \E j \in 1..Len(cs) : cs[j].k = k

\* rank r submits a collective call
Submit(r, op, data, supplied) ==
    /\ ncalls' = [ncalls EXCEPT ![r] = @ + 1]
    /\ calls' = Append1(calls, r,
           [k |-> ncalls[r] + 1, op |-> op, param |-> idx[r], data |-> data,
            supplied |-> supplied])

\* self._optimizer.compute_gradients, then the bypass or the start of the
\* list comprehension of allreduce_grads
ComputeGradients(r) ==
    /\ r \in Ranks
    /\ entry = "compute_gradients"
    /\ pc[r] = "idle"
    /\ step[r] < MaxSteps
    /\ \E gv \in {GradList(params, r, step[r])} :
        /\ grads' = [grads EXCEPT ![r] = gv]
        /\ IF needs_allreduce(size)
           THEN /\ pc' = [pc EXCEPT ![r] = "start"]
                /\ idx' = [idx EXCEPT ![r] = 1]
                /\ out' = [out EXCEPT ![r] = <<>>]
                /\ returned' = [returned EXCEPT ![r] = <<>>]
                /\ UNCHANGED step
           ELSE /\ returned' = [returned EXCEPT ![r] = gv]
                /\ step' = [step EXCEPT ![r] = @ + 1]
                /\ UNCHANGED <<pc, idx, out>>
    /\ UNCHANGED <<config, memory, work, ncalls, calls, events, fb, tk>>

\* a program that calls allreduce(tensor, var, opt, average) on each of its
\* tensors in turn
CallAllreduce(r) ==
    /\ r \in Ranks
    /\ entry = "allreduce"
    /\ pc[r] = "idle"
    /\ step[r] < MaxSteps
    /\ grads' = [grads EXCEPT ![r] = GradList(params, r, step[r])]
    /\ pc' = [pc EXCEPT ![r] = "start"]
    /\ idx' = [idx EXCEPT ![r] = 1]
    /\ out' = [out EXCEPT ![r] = <<>>]
    /\ returned' = [returned EXCEPT ![r] = <<>>]
    /\ UNCHANGED <<config, step, memory, work, ncalls, calls, events, fb, tk>>

\* "... if grad is not None else grad"
SkipNone(r) ==
    /\ AtGradient(r)
    /\ grads[r][idx[r]].kind = "none"
    /\ out' = Append1(out, r, grads[r][idx[r]])
    /\ idx' = [idx EXCEPT ![r] = @ + 1]
    /\ UNCHANGED <<config, pc, step, grads, returned, memory, work, ncalls, calls,
                   events, fb, tk>>

\* dense branch: the slot is fetched (created zero if absent), read and the
\* quantizer applied
Quantize(r) ==
    /\ AtGradient(r)
    /\ grads[r][idx[r]].kind # "none"
    /\ ~IsIndexedSlices(CurTensor(r))
    /\ LET i == idx[r]
           tensor == CurTensor(r).values
           mem == IF memory[r][i] = <<>> THEN TZeros(Len(tensor)) ELSE memory[r][i]
           res == qsgd_compk(tensor, mem, sparsify, use_memory)
           h == fb[r][i]
       IN  /\ memory' = [memory EXCEPT ![r][i] = mem]
           /\ work' = [work EXCEPT ![r] =
                  [NoWork EXCEPT !.tensor = CurTensor(r), !.mem_before = mem,
                                 !.q = res.q, !.err = res.err]]
           /\ fb' = [fb EXCEPT ![r][i] =
                  [h EXCEPT !.before = mem, !.grad = tensor,
                            !.sumGrad = IF h.sumGrad = <<>> THEN tensor ELSE TAdd(h.sumGrad, tensor),
                            !.allzero = h.allzero /\ tensor = TZeros(Len(tensor))]]
    /\ events' = [events EXCEPT ![r] = <<"MemoryRead", "Quantize">>]
    /\ pc' = [pc EXCEPT ![r] = "quantize"]
    /\ UNCHANGED <<config, idx, step, grads, out, returned, ncalls, calls, tk>>

\* mem_update_op = memory.assign(error)
Assign(r) ==
    /\ r \in Ranks
    /\ pc[r] = after("assign")
    /\ memory' = [memory EXCEPT ![r][idx[r]] = work[r].err]
    /\ events' = Append1(events, r, "MemoryWrite")
    /\ pc' = [pc EXCEPT ![r] = "assign"]
    /\ UNCHANGED <<config, idx, step, grads, out, returned, work, ncalls, calls, fb, tk>>

\* compression.compress(tensor_quantized); _allreduce(tensor_compressed) is
\* submitted and the rank waits for it
IssueAllreduce(r) ==
    /\ r \in Ranks
    /\ pc[r] = after("_allreduce")
    /\ LET i == idx[r]
           tensor_compressed == compress(work[r].q).tensor
           h == fb[r][i]
       IN  /\ Submit(r, "allreduce", tensor_compressed, work[r].tensor.values)
           /\ fb' = [fb EXCEPT ![r][i] =
                  [h EXCEPT !.steps = @ + 1, !.sent = tensor_compressed,
                            !.sumSent = IF h.sumSent = <<>> THEN tensor_compressed
                                        ELSE TAdd(h.sumSent, tensor_compressed)]]
    /\ events' = Append1(events, r, "Compress")
    /\ pc' = [pc EXCEPT ![r] = "_allreduce_wait"]
    /\ UNCHANGED <<config, idx, step, grads, out, returned, memory, work, tk>>

\* sparse branch: values = allgather(tensor.values) is submitted
IssueAllgatherValues(r) ==
    /\ AtGradient(r)
    /\ grads[r][idx[r]].kind # "none"
    /\ IsIndexedSlices(CurTensor(r))
    /\ Submit(r, "allgather", CurTensor(r).values, CurTensor(r).values)
    /\ work' = [work EXCEPT ![r] = [NoWork EXCEPT !.tensor = CurTensor(r)]]
    /\ events' = [events EXCEPT ![r] = <<"AllgatherValues">>]
    /\ pc' = [pc EXCEPT ![r] = "allgather_values_wait"]
    /\ UNCHANGED <<config, idx, step, grads, out, returned, memory, fb, tk>>

IssueAllgatherIndices_rank0_skips(r) ==
    /\ r \in Ranks
    /\ pc[r] = "allgather_values"
    /\ IF r = 0
       THEN /\ work' = [work EXCEPT ![r].indices = work[r].tensor.indices]
            /\ pc' = [pc EXCEPT ![r] = "allgather_indices"]
            /\ UNCHANGED <<ncalls, calls, events>>
       ELSE /\ Submit(r, "allgather", work[r].tensor.indices, work[r].tensor.indices)
            /\ events' = Append1(events, r, "AllgatherIndices")
            /\ pc' = [pc EXCEPT ![r] = "allgather_indices_wait"]
            /\ UNCHANGED work
    /\ UNCHANGED <<config, idx, step, grads, out, returned, memory, fb, tk>>

\* indices = allgather(tensor.indices) is submitted
IssueAllgatherIndices(r) ==
    /\ r \in Ranks
    /\ pc[r] = "allgather_values"
    /\ Submit(r, "allgather", work[r].tensor.indices, work[r].tensor.indices)
    /\ events' = Append1(events, r, "AllgatherIndices")
    /\ pc' = [pc EXCEPT ![r] = "allgather_indices_wait"]
    /\ UNCHANGED <<config, idx, step, grads, out, returned, memory, work, fb, tk>>

\* The collective a rank waits for completes once every rank has submitted
\* its call of the same number, for the same operation on the same
\* parameter.  A call is forgotten when every rank has completed it.
Complete(r) ==
    /\ r \in Ranks
    /\ pc[r] \in {"_allreduce_wait", "allgather_values_wait", "allgather_indices_wait"}
    /\ LET k == ncalls[r]
           mine == CallNo(calls[r], k)
           data == [s \in Ranks |-> CallNo(calls[s], k).data]
           supplied == [s \in Ranks |-> CallNo(calls[s], k).supplied]
           last == \A s \in Ranks \ {r} : ncalls[s] > k \/ pc[s] \notin
                       {"_allreduce_wait", "allgather_values_wait", "allgather_indices_wait"}
       IN  /\ \A s \in Ranks :
                 /\ HasCall(calls[s], k)
                 /\ CallNo(calls[s], k).op = mine.op
                 /\ CallNo(calls[s], k).param = mine.param
           /\ work' = [work EXCEPT ![r] =
                  IF pc[r] = "_allreduce_wait"
                  THEN [@ EXCEPT !.summed = mpi_allreduce(data, size),
                                 !.all_tensors = supplied]
                  ELSE IF pc[r] = "allgather_values_wait"
                  THEN [@ EXCEPT !.values = allgather(data, size),
                                 !.all_values = supplied]
                  ELSE [@ EXCEPT !.indices = allgather(data, size),
                                 !.all_indices = supplied]]
           /\ calls' = IF last
                       THEN [s \in RankIds |-> SelectSeq(calls[s], LAMBDA c : c.k # k)]
                       ELSE calls
    /\ events' = IF pc[r] = "_allreduce_wait" THEN Append1(events, r, "Reduce") ELSE events
    /\ pc' = [pc EXCEPT ![r] =
           IF pc[r] = "_allreduce_wait" THEN "_allreduce"
           ELSE IF pc[r] = "allgather_values_wait" THEN "allgather_values"
           ELSE "allgather_indices"]
    /\ UNCHANGED <<config, idx, step, grads, out, returned, memory, ncalls, fb, tk>>

\* decompress, divide by the size when averaging, return new_tensor
FinishDense(r) ==
    /\ r \in Ranks
    /\ pc[r] = after("rescale")
    /\ LET summed_tensor == decompress(work[r].summed, compress(work[r].q).ctx)
           result == Dense(new_tensor(summed_tensor, average, size))
       IN  /\ out' = Append1(out, r, postscale(result))
           /\ work' = [work EXCEPT ![r].result = result]
    /\ events' = [events EXCEPT ![r] = @ \o <<"Decompress", "Rescale">>]
    /\ idx' = [idx EXCEPT ![r] = @ + 1]
    /\ pc' = [pc EXCEPT ![r] = "start"]
    /\ UNCHANGED <<config, step, grads, returned, memory, ncalls, calls, fb, tk>>

\* return tf.IndexedSlices(new_values, indices, dense_shape=tensor.dense_shape)
FinishSparse(r) ==
    /\ r \in Ranks
    /\ pc[r] = "allgather_indices"
    /\ LET result == IndexedSlices(new_values(work[r].values, average, size),
                                   work[r].indices, work[r].tensor.dense_shape)
       IN  /\ out' = Append1(out, r, postscale(result))
           /\ work' = [work EXCEPT ![r].result = result]
    /\ events' = Append1(events, r, "Rescale")
    /\ idx' = [idx EXCEPT ![r] = @ + 1]
    /\ pc' = [pc EXCEPT ![r] = "start"]
    /\ UNCHANGED <<config, step, grads, returned, memory, ncalls, calls, fb, tk>>

\* return list(zip(avg_grads, vars))
Return(r) ==
    /\ r \in Ranks
    /\ pc[r] = "start"
    /\ idx[r] > Len(params)
    /\ returned' = [returned EXCEPT ![r] = out[r]]
    /\ step' = [step EXCEPT ![r] = @ + 1]
    /\ pc' = [pc EXCEPT ![r] = "idle"]
    /\ grads' = [grads EXCEPT ![r] = <<>>]
    /\ out' = [out EXCEPT ![r] = <<>>]
    /\ work' = [work EXCEPT ![r] = NoWork]
    /\ events' = [events EXCEPT ![r] = <<>>]
    /\ UNCHANGED <<config, idx, memory, ncalls, calls, fb, tk>>

RankNext(r) ==
    \/ ComputeGradients(r)
    \/ CallAllreduce(r)
    \/ SkipNone(r)
    \/ Quantize(r)
    \/ Assign(r)
    \/ IssueAllreduce(r)
    \/ IssueAllgatherValues(r)
    \/ IssueAllgatherIndices(r)
    \/ Complete(r)
    \/ FinishDense(r)
    \/ FinishSparse(r)
    \/ Return(r)

Next == \E r \in RankIds : RankNext(r)

Spec == Init /\ [][Next]_vars

\* every rank is a running process: some rank that can take a step does
FairSpec == Spec /\ WF_vars(Next)

\* ------------------------------------------- the quantizer on the top-K path
\* With sparsify set, one process applies qsgd_compk to the gradients of one
\* variable and assigns the residual to its slot, call after call.  The
\* variable has 3 elements (fewer than the cap) or 1002 (more than the cap);
\* the large variable is followed for MaxBigSteps calls.
TopKValues == { <<-1, 1>>, Zero, <<2, 1>> }
BigNumel == 1002

\* a large tensor: base everywhere but v at position p
BigTensor(base, p, v) ==
    [i \in 1..BigNumel |-> IF i = p THEN <<v, 1>> ELSE <<base, 1>>] \o <<>>

\* the gradients enumerated for a variable of numel elements
TopKGrads(numel) ==
    IF numel = 3
    THEN {<<a, b, c>> : a \in TopKValues, b \in TopKValues, c \in TopKValues}
    ELSE { TZeros(BigNumel), BigTensor(1, BigNumel, -3), BigTensor(0, 500, 2) }

InitTopK ==
    /\ size = 1
    /\ entry = "allreduce"
    /\ average = TRUE
    /\ sparse_as_dense = FALSE
    /\ sparsify = TRUE
    /\ use_memory \in BOOLEAN
    /\ params = <<"dense">>
    /\ dataset = [j \in 0..1 |-> <<Zero, Zero>>]
    /\ PipelineInit
    /\ \E numel \in {3, BigNumel} :
          tk = [step |-> 0, pc |-> "start", memory |-> TZeros(numel), grad |-> <<>>,
                input |-> <<>>, q |-> <<>>, err |-> <<>>, indices |-> <<>>]

\* tensor_quantized, error = qsgd_compk(tensor, memory, topK_flag=1, ...)
TopKQuantize ==
    /\ tk.pc = "start"
    /\ tk.step < (IF Len(tk.memory) = BigNumel THEN MaxBigSteps ELSE MaxTopKSteps)
    /\ \E g \in TopKGrads(Len(tk.memory)) :
          \E res \in {qsgd_compk(g, tk.memory, sparsify, use_memory)} :
              tk' = [tk EXCEPT !.pc = "quantize", !.grad = g,
                               !.input = TAdd(tk.memory, g),
                               !.q = res.q, !.err = res.err, !.indices = res.indices]
    /\ UNCHANGED <<config, pc, idx, step, grads, out, returned, memory, work, ncalls,
                   calls, events, fb>>

\* mem_update_op = memory.assign(error)
TopKAssign ==
    /\ tk.pc = "quantize"
    /\ tk' = [tk EXCEPT !.pc = "start", !.memory = tk.err, !.step = @ + 1]
    /\ UNCHANGED <<config, pc, idx, step, grads, out, returned, memory, work, ncalls,
                   calls, events, fb>>

NextTopK == TopKQuantize \/ TopKAssign

SpecTopK == InitTopK /\ [][NextTopK]_vars

\* ================================================================ claims
IsPrefix(a, b) == Len(a) <= Len(b) /\ a = SubSeq(b, 1, Len(a))
SeqToSet(q) == {q[j] : j \in 1..Len(q)}
\* the collective calls one pass over the parameter sequence must issue
RECURSIVE ExpectedCalls(_, _)
ExpectedCalls(ps, i) ==
    IF i > Len(ps) THEN <<>>
    ELSE (CASE ps[i] = "none" -> <<>>
            [] ps[i] = "dense" -> << <<"allreduce", i>> >>
            [] ps[i] = "sparse" -> << <<"allgather", i>>, <<"allgather", i>> >>)
         \o ExpectedCalls(ps, i + 1)

CallsAgree ==
    \A r \in Ranks, s \in Ranks :
        \A c \in SeqToSet(calls[r]), d \in SeqToSet(calls[s]) :
            c.k = d.k => c.op = d.op /\ c.param = d.param

CallsAsExpected ==
    LET exp == ExpectedCalls(params, 1)
        L == Len(exp)
    IN  \A r \in Ranks :
            /\ \A c \in SeqToSet(calls[r]) : <<c.op, c.param>> = exp[((c.k - 1) % L) + 1]
            /\ pc[r] = "idle" =>
                   ncalls[r] = IF entry = "compute_gradients" /\ size = 1
                               THEN 0 ELSE step[r] * L

InDense(r) == r \in Ranks /\ Len(events[r]) > 0 /\ events[r][1] = "MemoryRead"

\* C1: with N > 1 ranks, the none codec and average=True, the dense tensor
\* allreduce returns on a rank is the element-wise sum of the tensors the
\* ranks passed in, divided by N.
C1_DeliversAverageOfInputs ==
    \A r \in Ranks :
        (size > 1 /\ average /\ work[r].result.kind = "dense")
            => work[r].result.values =
                   TDiv(SumRanks(work[r].all_tensors, size), <<size, 1>>)

\* C2: with one rank compute_gradients returns the wrapped optimizer's list
\* unchanged, issues no collective, creates no slot and quantizes nothing.
C2_BypassIsNoOp ==
    (size = 1 /\ entry = "compute_gradients")
        => \A r \in Ranks :
              /\ pc[r] = "idle"
              /\ ncalls[r] = 0 /\ calls[r] = <<>>
              /\ events[r] = <<>> /\ work[r] = NoWork
              /\ \A i \in 1..Len(params) : memory[r][i] = <<>> /\ fb[r][i] = NoFb
              /\ step[r] > 0 => returned[r] = grads[r]

C2_Witness ==
    /\ size = 1 /\ entry = "compute_gradients" /\ Len(params) = 3
    /\ step[0] = 2
    /\ returned[0][1].kind = "sparse" /\ returned[0][2].kind = "none"
    /\ returned[0][3] = Dense(<<<<-1, 1>>, <<6, 1>>>>)
    /\ returned[0] = GradList(params, 0, 1)

\* the number of rows ranks 0..s-1 supplied
RECURSIVE RowsBefore(_, _)
RowsBefore(ts, s) == IF s = 0 THEN 0 ELSE RowsBefore(ts, s - 1) + Len(ts[s - 1])

\* C3: the IndexedSlices allreduce returns holds, rank after rank, every
\* row of every rank (duplicate indices kept), with the input's dense_shape,
\* the values divided by the size when average=True and as gathered when not.
C3_SparseIsRankOrderedConcat ==
    \A r \in Ranks :
        work[r].result.kind = "sparse"
            => LET res == work[r].result
                   vs == work[r].all_values
                   is == work[r].all_indices
               IN  /\ Len(res.values) = RowsBefore(vs, size)
                   /\ Len(res.indices) = RowsBefore(vs, size)
                   /\ res.dense_shape = work[r].tensor.dense_shape
                   /\ \A s \in Ranks : \A j \in 1..Len(vs[s]) :
                         /\ Len(is[s]) = Len(vs[s])
                         /\ res.indices[RowsBefore(vs, s) + j] = is[s][j]
                         /\ res.values[RowsBefore(vs, s) + j] =
                                IF average THEN RDiv(vs[s][j], <<size, 1>>) ELSE vs[s][j]

C3_Witness ==
    /\ size > 1
    /\ \E r \in Ranks :
          /\ work[r].result.kind = "sparse"
          /\ average
          /\ Len(work[r].result.values) = 3
          /\ work[r].result.indices = <<2, 1, 2>>

\* C5 (as claimed): with sparse_as_dense=True no sparse gradient goes
\* through the allgather path.
C5_SparseAsDenseAvoidsAllgather ==
    sparse_as_dense
        => \A r \in Ranks : \A c \in SeqToSet(calls[r]) : c.op # "allgather"

ClaimedOrder ==
    <<"MemoryRead", "Quantize", "Compress", "Reduce", "Decompress", "Rescale", "MemoryWrite">>
CodeOrder ==
    <<"MemoryRead", "Quantize", "MemoryWrite", "Compress", "Reduce", "Decompress", "Rescale">>

MidStep(r, i) == idx[r] = i /\ pc[r] \in {"quantize", "assign"}

\* C7: after every dense step the stored residual is (residual before +
\* gradient) - the tensor handed to the reducer, so residual + everything
\* sent = everything supplied, and the residual has the gradient's shape.
C7_ResidualIsInputMinusSent ==
    \A r \in Ranks : \A i \in 1..Len(params) :
        LET h == fb[r][i]
        IN  (use_memory /\ h.steps > 0 /\ ~MidStep(r, i))
                => /\ memory[r][i] = TSub(TAdd(h.before, h.grad), h.sent)
                   /\ TAdd(memory[r][i], h.sumSent) = h.sumGrad
                   /\ Len(memory[r][i]) = Len(h.grad)

C7_Witness ==
    \E r \in Ranks : \E i \in 1..Len(params) :
        /\ fb[r][i].steps = 2 /\ ~MidStep(r, i)
        /\ fb[r][i].before # TZeros(2)
        /\ fb[r][i].grad = TZeros(2)
        /\ memory[r][i] # fb[r][i].before

\* C8: while every gradient of a variable has been zero, what is sent is
\* zero and the residual stays zero.
C8_ZeroIsFixedPoint ==
    \A r \in Ranks : \A i \in 1..Len(params) :
        LET h == fb[r][i]
        IN  (h.allzero /\ h.before # <<>>)
                => /\ memory[r][i] = TZeros(Len(h.grad))
                   /\ h.steps > 0 => h.sent = TZeros(Len(h.grad))
                   /\ MidStep(r, i) => /\ work[r].q = TZeros(Len(h.grad))
                                       /\ work[r].err = TZeros(Len(h.grad))

C8_Witness ==
    \E r \in Ranks : \E i \in 1..Len(params) :
        /\ fb[r][i].allzero /\ fb[r][i].steps = 2 /\ pc[r] = "_allreduce"
        /\ "MemoryWrite" \in SeqToSet(events[r])

\* C9 (as claimed): quantizing t against a zero residual gives elements of
\* magnitude L1(t)/count(t) with the sign of t wherever t is not zero.
C9_SignAndMagnitude ==
    \A r \in Ranks :
        (pc[r] = "quantize" /\ ~sparsify /\ work[r].mem_before = TZeros(Len(work[r].q)))
            => LET t == work[r].tensor.values
                   scale == RDiv(L1(t), <<Len(t), 1>>)
               IN  \A i \in 1..Len(t) :
                       /\ RAbs(work[r].q[i]) = scale
                       /\ t[i] # Zero => RSign(work[r].q[i]) = RSign(t[i])

\* C10: on the top-K path min(1000, numel) distinct positions are selected,
\* every other position of the quantized tensor is zero, the quantized
\* tensor has the input's shape, and when the selected values have no
\* positive norm the quantized tensor is zero and the residual is the input.
C10_TopKSelection ==
    (sparsify /\ tk.pc = "quantize")
        => LET numel == Len(tk.input)
               sel == SeqToSet(tk.indices)
           IN  /\ Len(tk.indices) = IF numel < 1000 THEN numel ELSE 1000
               /\ Cardinality(sel) = Len(tk.indices)
               /\ sel \subseteq 1..numel
               /\ Len(tk.q) = numel
               /\ \A i \in (1..numel) \ sel : tk.q[i] = Zero
               /\ (\A i \in sel : tk.input[i] = Zero)
                      => tk.q = TZeros(numel) /\ tk.err = tk.input

C10_Witness ==
    /\ sparsify /\ tk.pc = "quantize"
    /\ Len(tk.input) = BigNumel
    /\ Len(tk.indices) = 1000
    /\ \E i \in (1..BigNumel) \ SeqToSet(tk.indices) :
          tk.input[i] # Zero /\ tk.q[i] = Zero /\ tk.err[i] = tk.input[i]
    /\ tk.q # TZeros(BigNumel)

====
